---- MODULE Spec2Model ----
(***************************************************************************)
(* quickpay: the authorization-flow driver (src/src/auth_flow.rs) and the  *)
(* input collector (src/src/inputs.rs).                                    *)
(*                                                                         *)
(* The remote payments service and the person at the terminal are the      *)
(* environment: the service answers every start/submit call with an error  *)
(* or with an optional authorization flow, the person answers every prompt *)
(* with a value or the terminal interaction fails.                         *)
(***************************************************************************)
EXTENDS Integers, Sequences, FiniteSets, TLC

(***************************************************************************)
(* Bounds of the model.                                                    *)
(***************************************************************************)
\* responses of the service that may carry another action
MaxRounds == 2
\* providers in one ProviderSelection action
MaxProviders == 3
\* inputs in one Form action
MaxInputs == 2
\* length of the strings typed at an isolated text prompt
MaxStrLen == 3
\* largest min_length / max_length of an isolated text prompt
MaxLength == 3
\* regexes carried by an isolated text prompt
MaxRegexes == 2

(***************************************************************************)
(* Option<T> and Result<T, E>.                                             *)
(***************************************************************************)
None == <<>>
Some(x) == <<x>>
IsSome(o) == o # <<>>
Unwrap(o) == o[1]

Ok(v) == [tag |-> "Ok", val |-> v, err |-> ""]
Err(e) == [tag |-> "Err", val |-> None, err |-> e]
Panic(m) == [tag |-> "Panic", val |-> None, err |-> m]
Running == [tag |-> "Running", val |-> None, err |-> ""]

SeqUpTo(S, n) == UNION {[1..m -> S] : m \in 0..n}

(***************************************************************************)
(* Strings are sequences of characters; s.len() is their length.           *)
(***************************************************************************)
Alphabet == {"1", "a"}
Digits == {"1"}
Letters == {"a"}
Strings(n) == SeqUpTo(Alphabet, n)
\* what the person may type at a text prompt while the Driver runs
Typed == {<<>>, <<"1">>, <<"a">>, <<"1", "1">>}

(***************************************************************************)
(* AdditionalInputRegex {regex, message}.  Three patterns: two that the    *)
(* regex crate compiles and one it rejects (look-ahead is not supported).  *)
(***************************************************************************)
PatDigits == "^[0-9]+$"
PatLetters == "^[a-z]+$"
PatLookahead == "^(?=1)"

ReDigits == [regex |-> PatDigits, message |-> "digits only"]
ReLetters == [regex |-> PatLetters, message |-> "letters only"]
ReLookahead == [regex |-> PatLookahead, message |-> "must start with 1"]
Regexes == {ReDigits, ReLetters, ReLookahead}

\* Regex::new(pattern).is_ok()
RegexBuilds(pattern) == pattern \in {PatDigits, PatLetters}

\* Regex::is_match for a pattern that builds
is_match(pattern, s) ==
    CASE pattern = PatDigits -> Len(s) >= 1 /\ \A i \in 1..Len(s) : s[i] \in Digits
      [] pattern = PatLetters -> Len(s) >= 1 /\ \A i \in 1..Len(s) : s[i] \in Letters
      [] OTHER -> FALSE

LengthMessage == "Should have length between min and max"
BuildMessage == "could not build validation regex"
Valid == "valid"

\* check_regexes returning from inside the loop after the first regex
check_first_regex_only(s, regexes, i) ==
    IF i > Len(regexes) THEN Valid
    ELSE IF ~RegexBuilds(regexes[i].regex) THEN BuildMessage
    ELSE IF ~is_match(regexes[i].regex, s) THEN regexes[i].message
    ELSE Valid

RECURSIVE check_regexes(_, _, _)
check_regexes(s, regexes, i) ==
    IF i > Len(regexes) THEN Valid
    ELSE IF ~RegexBuilds(regexes[i].regex) THEN BuildMessage
    ELSE IF ~is_match(regexes[i].regex, s) THEN regexes[i].message
    ELSE check_regexes(s, regexes, i + 1)

\* the length test of validate_text
length_ok(len, min_length, max_length) == len >= min_length \/ len <= max_length

\* validate_text: Valid, or the message of the error it returns
validate_text(s, min_length, max_length, regexes) ==
    IF ~length_ok(Len(s), min_length, max_length) THEN LengthMessage
    ELSE check_regexes(s, regexes, 1)

(***************************************************************************)
(* Providers.                                                              *)
(***************************************************************************)
Provider(id, name, cc) == [id |-> id, display_name |-> name, country_code |-> cc]
ProviderPool ==
    { Provider("p1", Some("Alpha"), Some("GB")),
      Provider("p2", Some("Beta"), Some("DE")),
      Provider("p3", Some("Gamma"), None),
      Provider("p4", None, Some("FR")) }

to_emoji(country) ==
    CASE country = "DE" -> "flag-DE"
      [] country = "ES" -> "flag-ES"
      [] country = "FR" -> "flag-FR"
      [] country = "GB" -> "flag-GB"
      [] country = "IE" -> "flag-IE"
      [] country = "IT" -> "flag-IT"
      [] country = "LT" -> "flag-LT"
      [] country = "NL" -> "flag-NL"
      [] country = "PL" -> "flag-PL"
      [] country = "PT" -> "flag-PT"

\* provider_label with the country code made optional in the label
provider_label_any_country(p) ==
    IF ~IsSome(p.display_name) THEN None
    ELSE Some(<< IF IsSome(p.country_code) THEN to_emoji(Unwrap(p.country_code)) ELSE "",
                 Unwrap(p.display_name) >>)

\* the closure of the flat_map: Some(label) or None
provider_label(p) ==
    IF ~IsSome(p.country_code) THEN None
    ELSE IF ~IsSome(p.display_name) THEN None
    ELSE Some(<<to_emoji(Unwrap(p.country_code)), Unwrap(p.display_name)>>)

\* providers.iter().flat_map(..).collect()
RECURSIVE provider_names_of(_)
provider_names_of(ps) ==
    IF ps = <<>> THEN <<>>
    ELSE LET l == provider_label(Head(ps)) IN
         (IF IsSome(l) THEN <<Unwrap(l)>> ELSE <<>>) \o provider_names_of(Tail(ps))

\* providers.get(index), index counted from 0
get(list, index) == IF index + 1 \in 1..Len(list) THEN Some(list[index + 1]) ELSE None

\* Insert into a map made anew for each entry
InsertIntoNew(map, key, value) == [x \in {key} |-> value]

\* HashMap::insert
Insert(map, key, value) ==
    [x \in (DOMAIN map) \cup {key} |-> IF x = key THEN value ELSE map[x]]
EmptyMap == <<>>

(***************************************************************************)
(* Form inputs: AdditionalInput::{Text, TextWithImage, Select}.  Every     *)
(* String a prompt can return (typed text, option ids) is a sequence of    *)
(* characters.                                                             *)
(***************************************************************************)
NoImage == [type |-> "none", data |-> ""]
ImageUri == [type |-> "uri", data |-> "https://bank.example/captcha.png"]
ImageGood == [type |-> "base64", data |-> "iVBORw0KGgo="]
ImageNotBase64 == [type |-> "base64", data |-> "!!!"]
ImageNotImage == [type |-> "base64", data |-> "bm90IGFuIGltYWdl"]

\* base64::decode(data).is_ok()
base64_decodes(data) == data # "!!!"
\* image::load_from_memory(bytes).is_ok()
image_loads(data) == data = "iVBORw0KGgo="

Text(id, sensitive, min_length, max_length, regexes) ==
    [type |-> "Text", id |-> id, sensitive |-> sensitive, min_length |-> min_length,
     max_length |-> max_length, regexes |-> regexes, image |-> NoImage, options |-> <<>>]
TextWithImage(id, sensitive, min_length, max_length, regexes, image) ==
    [type |-> "TextWithImage", id |-> id, sensitive |-> sensitive,
     min_length |-> min_length, max_length |-> max_length, regexes |-> regexes,
     image |-> image, options |-> <<>>]
Select(id, options) ==
    [type |-> "Select", id |-> id, sensitive |-> FALSE, min_length |-> 0,
     max_length |-> 0, regexes |-> <<>>, image |-> NoImage, options |-> options]

Option(id, display_text) == [id |-> id, display_text |-> display_text]
AccountOptions ==
    << Option(<<"o", "1">>, <<"O", "n", "e">>), Option(<<"o", "2">>, <<"T", "w", "o">>) >>

\* the inputs the service may put in a Form action while the Driver runs
InputPool ==
    { Text("user", FALSE, 1, 1, <<ReDigits>>),
      Text("pin", TRUE, 1, 1, <<ReDigits>>),
      TextWithImage("captcha", FALSE, 0, 1, <<>>, ImageGood),
      TextWithImage("captcha", FALSE, 0, 1, <<>>, ImageUri),
      TextWithImage("captcha", FALSE, 0, 1, <<>>, ImageNotBase64),
      TextWithImage("captcha", FALSE, 0, 1, <<>>, ImageNotImage),
      Select("account", AccountOptions) }

\* the inputs of an isolated text prompt
TextPool ==
    { Text("field", sensitive, min_length, max_length, regexes) :
        sensitive \in BOOLEAN, min_length \in 0..MaxLength, max_length \in 0..MaxLength,
        regexes \in SeqUpTo(Regexes, MaxRegexes) }

(***************************************************************************)
(* AuthorizationFlowNextAction and AuthorizationFlow {actions: Option}.    *)
(***************************************************************************)
Action(tag, ps, uri, ins) == [tag |-> tag, providers |-> ps, uri |-> uri, inputs |-> ins]
ProviderSelection(ps) == Action("ProviderSelection", ps, "", <<>>)
Consent == Action("Consent", <<>>, "", <<>>)
Redirect(uri) == Action("Redirect", <<>>, uri, <<>>)
Form(ins) == Action("Form", <<>>, "", ins)
Wait == Action("Wait", <<>>, "", <<>>)

RedirectUris == {"https://bank.example/auth"}

TerminalActions == {Wait} \cup {Redirect(u) : u \in RedirectUris}
InteractiveActions ==
    {Consent} \cup {ProviderSelection(ps) : ps \in SeqUpTo(ProviderPool, MaxProviders)}
              \cup {Form(ins) : ins \in SeqUpTo(InputPool, MaxInputs)}

Flow(actions) == [actions |-> actions]
FlowWith(a) == Flow(Some([next |-> a]))

\* what the service may answer once it has answered n calls
Responses(n) ==
    {Err("remote call failed"), Ok(None), Ok(Some(Flow(None)))}
      \cup {Ok(Some(FlowWith(a))) : a \in TerminalActions}
      \cup (IF n < MaxRounds THEN {Ok(Some(FlowWith(a))) : a \in InteractiveActions} ELSE {})

Call(kind, provider_id, ins) == [kind |-> kind, provider_id |-> provider_id, inputs |-> ins]
NoCall == Call("none", "", EmptyMap)

(***************************************************************************)
(* State.                                                                  *)
(***************************************************************************)
VARIABLES
    pc,             \* where the Driver is
    auth_flow,      \* handle_auth_flow: the Option<AuthorizationFlow> it holds
    result,         \* what handle_auth_flow returned (Running until it does)
    ret,            \* what the handler that just ended returned
    calls,          \* the kinds of the remote calls issued so far, in order
    pending,        \* the remote call in flight
    responses,      \* how many calls the service has answered
    handled,        \* the tags of the actions dispatched so far, in order
    printed,        \* the redirect uri written to the console
    providers,      \* handle_provider_selection: its argument
    provider_names, \* handle_provider_selection: the labels offered
    index,          \* the position picked at the last selection prompt
    consent,        \* the answer given at the last consent prompt
    inputs,         \* handle_form_action: its argument
    k,              \* handle_form_action: the input the for loop is at
    submissions,    \* handle_form_action: the HashMap
    entered,        \* the string typed last at the current text prompt
    validation,     \* what validate_text said of it
    orch,           \* create: where the Orchestrator is
    outcome,        \* create: what it returned (Running until it does)
    polls           \* create: how many times polling for the payment status began

vars == << pc, auth_flow, result, ret, calls, pending, responses, handled, printed,
           providers, provider_names, index, consent, inputs, k, submissions, entered,
           validation, orch, outcome, polls >>

driverVars == << auth_flow, result, ret >>
remoteVars == << calls, pending, responses >>
providerVars == << providers, provider_names >>
formVars == << inputs, k, submissions >>
promptVars == << entered, validation >>
orchVars == << orch, outcome, polls >>

NotValidated == "not validated"

Init ==
    /\ pc = "idle"
    /\ orch = "create"
    /\ outcome = Running
    /\ polls = 0
    /\ auth_flow = None
    /\ result = Running
    /\ ret = Running
    /\ calls = <<>>
    /\ pending = NoCall
    /\ responses = 0
    /\ handled = <<>>
    /\ printed = None
    /\ providers = <<>>
    /\ provider_names = <<>>
    /\ index = None
    /\ consent = None
    /\ inputs = <<>>
    /\ k = 0
    /\ submissions = EmptyMap
    /\ entered = None
    /\ validation = NotValidated

(***************************************************************************)
(* Remote calls.                                                           *)
(***************************************************************************)
\* issue a call and suspend on its .await
Issue(call) ==
    /\ calls' = Append(calls, call.kind)
    /\ pending' = call
    /\ pc' = "await"
    /\ UNCHANGED responses

\* handle_auth_flow, lines 18-40
Start ==
    /\ pc = "start"
    /\ Issue(Call("start_authorization_flow", "", EmptyMap))
    /\ UNCHANGED << driverVars, handled, printed, consent, providerVars, index, formVars,
                    promptVars >>
    /\ UNCHANGED orchVars

\* `.await?.authorization_flow` of the start call
after_start(response) ==
    IF response.tag = "Err"
    THEN [pc |-> "done", result |-> response, auth_flow |-> auth_flow]
    ELSE [pc |-> "loop", result |-> result, auth_flow |-> response.val]

StartResponse ==
    /\ pc = "await"
    /\ pending.kind = "start_authorization_flow"
    /\ \E response \in Responses(responses) :
         LET next == after_start(response) IN
         /\ pc' = next.pc
         /\ result' = next.result
         /\ auth_flow' = next.auth_flow
    /\ pending' = NoCall
    /\ responses' = responses + 1
    /\ UNCHANGED << ret, calls, handled, printed, consent, providerVars, index, formVars,
                    promptVars >>
    /\ UNCHANGED orchVars

\* a handler's frame is gone once it has its result
DropLocals ==
    /\ providers' = <<>>
    /\ provider_names' = <<>>
    /\ index' = None
    /\ inputs' = <<>>
    /\ k' = 0
    /\ submissions' = EmptyMap
    /\ entered' = None
    /\ validation' = NotValidated

\* `.await?` of a submit call and `Ok(response.authorization_flow)`
SubmitResponse ==
    /\ pc = "await"
    /\ pending.kind # "start_authorization_flow"
    /\ \E response \in Responses(responses) : ret' = response
    /\ pc' = "returned"
    /\ pending' = NoCall
    /\ responses' = responses + 1
    /\ DropLocals
    /\ UNCHANGED << auth_flow, result, calls, handled, printed, consent >>
    /\ UNCHANGED orchVars

(***************************************************************************)
(* The loop of handle_auth_flow.                                           *)
(***************************************************************************)
\* after_handler dropping the flow the handler returned
after_handler_dropping_flow(r) ==
    IF r.tag = "Err"
    THEN [pc |-> "done", result |-> r, auth_flow |-> auth_flow]
    ELSE [pc |-> "loop", result |-> result, auth_flow |-> None]

\* `auth_flow = match .. { .. => handler(..).await? }`
after_handler(r) ==
    IF r.tag = "Err"
    THEN [pc |-> "done", result |-> r, auth_flow |-> auth_flow]
    ELSE [pc |-> "loop", result |-> result, auth_flow |-> r.val]

HandlerReturns ==
    /\ pc = "returned"
    /\ LET next == after_handler(ret) IN
       /\ pc' = next.pc
       /\ result' = next.result
       /\ auth_flow' = next.auth_flow
    /\ DropLocals
    /\ UNCHANGED << ret, remoteVars, handled, printed, consent >>
    /\ UNCHANGED orchVars

\* `while let Some(auth_flow_inner) = auth_flow` moves the flow out of the variable,
\* which holds nothing until the match arm's value is assigned to it
Moved == <<"moved", "moved">>

\* `while let Some(..) = auth_flow` fails: `Ok(())`
LoopExit ==
    /\ pc = "loop"
    /\ auth_flow = None
    /\ result' = Ok(None)
    /\ pc' = "done"
    /\ UNCHANGED << auth_flow, ret, remoteVars, handled, printed, consent, providerVars, index,
                    formVars, promptVars >>
    /\ UNCHANGED orchVars

\* actions_or_error taking a flow without actions for one with nothing left to do
actions_or_wait(flow) ==
    IF IsSome(flow.actions) THEN Ok(Unwrap(flow.actions)) ELSE Ok([next |-> Wait])

\* actions_or_error giving up on a flow that is past its first action
actions_or_error_bounded(flow) ==
    IF IsSome(flow.actions) /\ Len(handled) < 1
    THEN Ok(Unwrap(flow.actions))
    ELSE Err("no auth flow actions")

\* `.actions.ok_or_else(..)?`
actions_or_error(flow) ==
    IF IsSome(flow.actions) THEN Ok(Unwrap(flow.actions)) ELSE Err("no auth flow actions")

MissingActions ==
    /\ pc = "loop"
    /\ IsSome(auth_flow)
    /\ actions_or_error(Unwrap(auth_flow)).tag = "Err"
    /\ result' = actions_or_error(Unwrap(auth_flow))
    /\ auth_flow' = Moved
    /\ pc' = "done"
    /\ UNCHANGED << ret, remoteVars, handled, printed, consent, providerVars, index,
                    formVars, promptVars >>
    /\ UNCHANGED orchVars

\* the action the match is on
NextAction == actions_or_error(Unwrap(auth_flow)).val.next

MatchArm(tag) ==
    /\ pc = "loop"
    /\ IsSome(auth_flow)
    /\ actions_or_error(Unwrap(auth_flow)).tag = "Ok"
    /\ NextAction.tag = tag
    /\ handled' = Append(handled, tag)

(***************************************************************************)
(* handle_provider_selection.                                              *)
(***************************************************************************)
InputError == Err("terminal interaction failed")

\* a handler ends with `r` without issuing a call
Return(r) ==
    /\ ret' = r
    /\ pc' = "returned"
    /\ UNCHANGED << auth_flow, result, remoteVars >>

\* the thread unwinds: handle_auth_flow never returns
Unwind(message) ==
    /\ result' = Panic(message)
    /\ pc' = "done"
    /\ UNCHANGED << auth_flow, ret, remoteVars >>

DispatchProviderSelection ==
    /\ MatchArm("ProviderSelection")
    /\ providers' = NextAction.providers
    /\ provider_names' = provider_names_of(NextAction.providers)
    /\ index' = None
    /\ pc' = "select_provider"
    /\ auth_flow' = Moved
    /\ UNCHANGED << result, ret, remoteVars, printed, consent, formVars, promptVars >>
    /\ UNCHANGED orchVars

\* selected_provider looking one entry too far
selected_provider_off_by_one(ps, i) == get(ps, i + 1)

\* `&providers.get(index)`
selected_provider(ps, i) == get(ps, i)

\* the person picks one of the offered labels
SelectProvider ==
    /\ pc = "select_provider"
    /\ \E i \in 0..(Len(provider_names) - 1) :
         /\ index' = Some(i)
         /\ IF IsSome(selected_provider(providers, i))
            THEN /\ Issue(Call("submit_provider_selection",
                               Unwrap(selected_provider(providers, i)).id, EmptyMap))
                 /\ UNCHANGED driverVars
            ELSE Unwind("index out of bounds")
    /\ UNCHANGED << handled, printed, consent, providerVars, formVars, promptVars >>
    /\ UNCHANGED orchVars

\* `.interact()?` fails (always, when nothing is offered)
ProviderPromptFails ==
    /\ pc = "select_provider"
    /\ Return(InputError)
    /\ UNCHANGED << handled, printed, consent, providerVars, index, formVars, promptVars >>
    /\ UNCHANGED orchVars

(***************************************************************************)
(* handle_consent_action.                                                  *)
(***************************************************************************)
DispatchConsent ==
    /\ MatchArm("Consent")
    /\ pc' = "confirm_consent"
    /\ consent' = None
    /\ auth_flow' = Moved
    /\ UNCHANGED << result, ret, remoteVars, printed, providerVars, index, formVars,
                    promptVars >>
    /\ UNCHANGED orchVars

\* ensure_consent without the ensure
ensure_consent_unchecked(given) == Ok(None)

\* `anyhow::ensure!(consent, ..)`
ensure_consent(given) == IF given THEN Ok(None) ELSE Err("consent was not given")

ConfirmConsent ==
    /\ pc = "confirm_consent"
    /\ \E given \in BOOLEAN :
         /\ consent' = Some(given)
         /\ IF ensure_consent(given).tag = "Ok"
            THEN /\ Issue(Call("submit_consent", "", EmptyMap))
                 /\ UNCHANGED driverVars
            ELSE Return(ensure_consent(given))
    /\ UNCHANGED << handled, printed, providerVars, index, formVars, promptVars >>
    /\ UNCHANGED orchVars

ConsentPromptFails ==
    /\ pc = "confirm_consent"
    /\ Return(InputError)
    /\ UNCHANGED << handled, printed, consent, providerVars, index, formVars, promptVars >>
    /\ UNCHANGED orchVars

(***************************************************************************)
(* handle_redirect_action and the Wait arm: no handler result to unwrap,   *)
(* the match yields None.                                                  *)
(***************************************************************************)
\* handle_redirect_action handing back a flow that awaits its next action
handle_redirect_action_continuing(uri) == Some(Flow(None))

handle_redirect_action(uri) == None

DispatchRedirect ==
    /\ MatchArm("Redirect")
    /\ printed' = Some(NextAction.uri)
    /\ auth_flow' = handle_redirect_action(NextAction.uri)
    /\ pc' = "loop"
    /\ UNCHANGED << result, ret, remoteVars, consent, providerVars, index, formVars,
                    promptVars >>
    /\ UNCHANGED orchVars

wait_arm == None

DispatchWait ==
    /\ MatchArm("Wait")
    /\ auth_flow' = wait_arm
    /\ pc' = "loop"
    /\ UNCHANGED << result, ret, remoteVars, printed, consent, providerVars, index, formVars,
                    promptVars >>
    /\ UNCHANGED orchVars

(***************************************************************************)
(* handle_form_action.                                                     *)
(***************************************************************************)
\* at_input with the submission inside the for loop, after its first turn
at_input_submitting_early(ins, i) ==
    IF i > 1 THEN "form_submit"
    ELSE IF i > Len(ins) THEN "form_submit"
    ELSE IF ins[i].type = "Text" THEN "form_text"
    ELSE IF ins[i].type = "TextWithImage" THEN "form_image"
    ELSE "form_select"

\* where the for loop goes for input i
at_input(ins, i) ==
    IF i > Len(ins) THEN "form_submit"
    ELSE IF ins[i].type = "Text" THEN "form_text"
    ELSE IF ins[i].type = "TextWithImage" THEN "form_image"
    ELSE "form_select"

DispatchForm ==
    /\ MatchArm("Form")
    /\ inputs' = NextAction.inputs
    /\ k' = 1
    /\ submissions' = EmptyMap
    /\ entered' = None
    /\ validation' = NotValidated
    /\ pc' = at_input(NextAction.inputs, 1)
    /\ auth_flow' = Moved
    /\ UNCHANGED << result, ret, remoteVars, printed, consent, providerVars, index >>
    /\ UNCHANGED orchVars

\* `let img = match image { .. }`
load_image(image) ==
    IF image.type = "uri" THEN Panic("not yet implemented: URL images are not yet supported")
    ELSE IF ~base64_decodes(image.data) THEN Err("invalid base64")
    ELSE IF ~image_loads(image.data) THEN Err("unsupported image format")
    ELSE Ok(None)

\* the image is loaded and printed
ShowImage ==
    /\ pc = "form_image"
    /\ LET img == load_image(inputs[k].image) IN
         IF img.tag = "Panic" THEN Unwind(img.err)
         ELSE IF img.tag = "Err" THEN Return(img)
         ELSE /\ pc' = "form_text"
              /\ UNCHANGED << driverVars, remoteVars >>
    /\ UNCHANGED << handled, printed, consent, providerVars, index, formVars, promptVars >>
    /\ UNCHANGED orchVars

\* `viuer::print(..).expect("Image printing failed")`
ImagePrintFails ==
    /\ pc = "form_image"
    /\ load_image(inputs[k].image).tag = "Ok"
    /\ Unwind("Image printing failed")
    /\ UNCHANGED << handled, printed, consent, providerVars, index, formVars, promptVars >>
    /\ UNCHANGED orchVars

\* text_input with the validator attached to the password prompt too
text_input_always_validating(s, min_length, max_length, regexes, sensitive) ==
    validate_text(s, min_length, max_length, regexes)

\* text_input on one entry s: what the prompt's validator says of it
text_input(s, min_length, max_length, regexes, sensitive) ==
    IF sensitive THEN NotValidated ELSE validate_text(s, min_length, max_length, regexes)

Accepted(verdict) == verdict \in {Valid, NotValidated}

\* `submissions.insert(id.to_string(), answer)` and the next turn of the for loop
Collect(id, answer) ==
    /\ submissions' = Insert(submissions, id, answer)
    /\ k' = k + 1
    /\ pc' = at_input(inputs, k + 1)
    /\ UNCHANGED << inputs, driverVars, remoteVars >>

\* the person types s at the prompt of input k; a rejected entry is prompted again
TextEntry(typed) ==
    /\ pc = "form_text"
    /\ \E s \in typed :
         LET input == inputs[k]
             verdict == text_input(s, input.min_length, input.max_length, input.regexes,
                                   input.sensitive)
         IN /\ entered' = Some([at |-> k, text |-> s])
            /\ validation' = verdict
            /\ IF Accepted(verdict)
               THEN Collect(input.id, s)
               ELSE UNCHANGED << pc, formVars, driverVars, remoteVars >>
    /\ UNCHANGED << handled, printed, consent, providerVars, index >>
    /\ UNCHANGED orchVars

\* a failed text prompt passed over: the for loop goes on to the next input
TextPromptSkipped ==
    /\ pc = "form_text"
    /\ k' = k + 1
    /\ pc' = at_input(inputs, k + 1)
    /\ UNCHANGED << inputs, submissions, driverVars, remoteVars >>
    /\ UNCHANGED << handled, printed, consent, providerVars, index, promptVars >>
    /\ UNCHANGED orchVars

TextPromptFails ==
    /\ pc = "form_text"
    /\ Return(InputError)
    /\ UNCHANGED << handled, printed, consent, providerVars, index, formVars, promptVars >>
    /\ UNCHANGED orchVars

\* select_input: the labels shown
option_keys(options) == [i \in 1..Len(options) |-> options[i].display_text]

\* select_input returning the label shown instead of the option's id
select_input_label(options, i) ==
    IF IsSome(get(options, i)) THEN Ok(option_keys(options)[i + 1]) ELSE Err("bad index")

\* select_input: what it returns when position i is picked
select_input(options, i) ==
    IF IsSome(get(options, i)) THEN Ok(Unwrap(get(options, i)).id) ELSE Err("bad index")

SelectOption ==
    /\ pc = "form_select"
    /\ \E i \in 0..(Len(option_keys(inputs[k].options)) - 1) :
         /\ index' = Some(i)
         /\ IF select_input(inputs[k].options, i).tag = "Ok"
            THEN Collect(inputs[k].id, select_input(inputs[k].options, i).val)
            ELSE /\ Return(select_input(inputs[k].options, i))
                 /\ UNCHANGED formVars
    /\ UNCHANGED << handled, printed, consent, providerVars, promptVars >>
    /\ UNCHANGED orchVars

SelectPromptFails ==
    /\ pc = "form_select"
    /\ Return(InputError)
    /\ UNCHANGED << handled, printed, consent, providerVars, index, formVars, promptVars >>
    /\ UNCHANGED orchVars

\* the batch the handler submits
\* form_request sent to the consent endpoint
form_request_as_consent(map) == Call("submit_consent", "", map)

form_request(map) == Call("submit_form_inputs", "", map)

SubmitForm ==
    /\ pc = "form_submit"
    /\ Issue(form_request(submissions))
    /\ UNCHANGED << driverVars, handled, printed, consent, providerVars, index, formVars,
                    promptVars >>
    /\ UNCHANGED orchVars

(***************************************************************************)
(* QuickPayClient::create (src/src/lib.rs): the Orchestrator.              *)
(***************************************************************************)
allDriverVars == << pc, auth_flow, result, ret, calls, pending, responses, handled, printed,
                    providers, provider_names, index, consent, inputs, k, submissions,
                    entered, validation >>

\* `self.tl.payments.create(..).await?`
after_create(response) ==
    IF response.tag = "Err"
    THEN [orch |-> "done", outcome |-> response, pc |-> pc]
    ELSE [orch |-> "auth", outcome |-> outcome, pc |-> "start"]

\* the payment is created, or its creation fails
CreatePayment ==
    /\ orch = "create"
    /\ \E response \in {Ok(None), Err("payment creation failed")} :
         LET next == after_create(response) IN
         /\ orch' = next.orch
         /\ outcome' = next.outcome
         /\ pc' = next.pc
    /\ UNCHANGED << auth_flow, result, ret, calls, pending, responses, handled, printed,
                    providers, provider_names, index, consent, inputs, k, submissions,
                    entered, validation, polls >>

\* after_auth_flow going on to the polling whatever handle_auth_flow returned
after_auth_flow_unchecked(r) ==
    [orch |-> "poll", outcome |-> outcome, polls |-> polls + 1]

\* `self.handle_auth_flow(&payment.id).await?` and the start of the polling
after_auth_flow(r) ==
    IF r.tag = "Ok"
    THEN [orch |-> "poll", outcome |-> outcome, polls |-> polls + 1]
    ELSE [orch |-> "done", outcome |-> r, polls |-> polls]

\* handle_auth_flow has ended (or the thread unwinds through create)
AuthFlowEnds ==
    /\ orch = "auth"
    /\ pc = "done"
    /\ LET next == after_auth_flow(result) IN
       /\ orch' = next.orch
       /\ outcome' = next.outcome
       /\ polls' = next.polls
    /\ UNCHANGED allDriverVars

\* PaymentStatus of the polled payment
PaymentStatuses ==
    {"Executed", "Settled", "Failed", "AuthorizationRequired", "Authorizing", "Authorized"}

\* `poll_until_terminal_state(..).await?` and the match on output.status
after_poll(response) ==
    IF response.tag = "Err" THEN response
    ELSE IF response.val \in {"Executed", "Settled", "Failed"} THEN Ok(None)
    ELSE Err("Payment did not reach terminal status")

PollEnds ==
    /\ orch = "poll"
    /\ \E response \in {Err("polling failed")} \cup {Ok(s) : s \in PaymentStatuses} :
         outcome' = after_poll(response)
    /\ orch' = "done"
    /\ UNCHANGED polls
    /\ UNCHANGED allDriverVars

(***************************************************************************)
(* The Orchestrator and the Driver with their environment.                 *)
(***************************************************************************)
Next ==
    \/ CreatePayment
    \/ AuthFlowEnds
    \/ PollEnds
    \/ Start
    \/ StartResponse
    \/ SubmitResponse
    \/ HandlerReturns
    \/ LoopExit
    \/ MissingActions
    \/ DispatchProviderSelection
    \/ SelectProvider
    \/ ProviderPromptFails
    \/ DispatchConsent
    \/ ConfirmConsent
    \/ ConsentPromptFails
    \/ DispatchRedirect
    \/ DispatchWait
    \/ DispatchForm
    \/ ShowImage
    \/ ImagePrintFails
    \/ TextEntry(Typed)
    \/ TextPromptFails
    \/ SelectOption
    \/ SelectPromptFails
    \/ SubmitForm

Spec == Init /\ [][Next]_vars

(***************************************************************************)
(* One text prompt on its own: the Driver has been handed a Form action    *)
(* with a single Text input, whose constraints range over TextPool.        *)
(***************************************************************************)
InitInputs ==
    /\ pc = "form_text"
    /\ orch = "auth"
    /\ outcome = Running
    /\ polls = 0
    /\ inputs \in {<<t>> : t \in TextPool}
    /\ auth_flow = Moved
    /\ result = Running
    /\ ret = Running
    /\ calls = <<"start_authorization_flow">>
    /\ pending = NoCall
    /\ responses = 1
    /\ handled = <<"Form">>
    /\ printed = None
    /\ providers = <<>>
    /\ provider_names = <<>>
    /\ index = None
    /\ consent = None
    /\ k = 1
    /\ submissions = EmptyMap
    /\ entered = None
    /\ validation = NotValidated

NextInputs ==
    \/ TextEntry(Strings(MaxStrLen))
    \/ TextPromptFails
    \/ SubmitForm

SpecInputs == InitInputs /\ [][NextInputs]_vars

(***************************************************************************)
(* Properties.                                                             *)
(***************************************************************************)
Count(seq, x) == Cardinality({i \in 1..Len(seq) : seq[i] = x})
Last(seq) == seq[Len(seq)]

\* a provider with both a display name and a country code
FullyDescribed(p) == IsSome(p.display_name) /\ IsSome(p.country_code)
\* the providers behind the offered labels, in the order they are offered
Eligible(ps) == SelectSeq(ps, FullyDescribed)

\* C1: the provider id passed to submit_provider_selection is the id of the
\* provider whose label the person picked from the offered list.
C1_SubmitsThePickedProvider ==
    (pc = "await" /\ pending.kind = "submit_provider_selection")
        => pending.provider_id = Eligible(providers)[Unwrap(index) + 1].id

\* C2: the offered list holds exactly the labels of the providers that have both
\* a display name and a country code, in their original order, so it is never
\* longer than the list of the action.
C2_OffersExactlyTheEligible ==
    /\ Len(provider_names) = Len(Eligible(providers))
    /\ \A i \in 1..Len(provider_names) :
         provider_names[i] = << to_emoji(Unwrap(Eligible(providers)[i].country_code)),
                                Unwrap(Eligible(providers)[i].display_name) >>
    /\ Len(provider_names) <= Len(providers)

\* C2 witness: a list with providers lacking a name, lacking a country code and
\* lacking neither is being offered.
C2_Witness ==
    /\ pc = "select_provider"
    /\ \E i, j, n \in 1..Len(providers) :
         /\ ~IsSome(providers[i].display_name)
         /\ ~IsSome(providers[j].country_code)
         /\ FullyDescribed(providers[n])
    /\ Len(provider_names) = 1

\* the text input whose prompt took the last entry, and that entry
EnteredInput == inputs[Unwrap(entered).at]
EnteredText == Unwrap(entered).text
WithinBounds(s, input) == input.min_length <= Len(s) /\ Len(s) <= input.max_length

\* C3: a non-sensitive text input accepts an entered string only if
\* min_length <= len <= max_length; a shorter or longer string is rejected.
C3_AcceptsOnlyWithinBounds ==
    (IsSome(entered) /\ ~EnteredInput.sensitive /\ Accepted(validation))
        => WithinBounds(EnteredText, EnteredInput)

\* the string matches the regex (a pattern that does not build matches nothing)
MatchesRegex(s, re) == RegexBuilds(re.regex) /\ is_match(re.regex, s)
\* the first regex, in the declared order, that the string fails to match
FirstFailing(s, regexes) ==
    CHOOSE i \in 1..Len(regexes) :
        /\ ~MatchesRegex(s, regexes[i])
        /\ \A j \in 1..(i - 1) : MatchesRegex(s, regexes[j])

\* the last entry was validated and its length is within the bounds
ValidatedWithinBounds ==
    /\ IsSome(entered)
    /\ ~EnteredInput.sensitive
    /\ WithinBounds(EnteredText, EnteredInput)

\* C4 as stated: within the bounds, the string is accepted iff it matches every
\* regex, and a rejection reports the localized message of the first regex it
\* fails to match.
C4_ReportsFirstFailingMessage ==
    ValidatedWithinBounds =>
        /\ Accepted(validation) <=>
              \A i \in 1..Len(EnteredInput.regexes) :
                  MatchesRegex(EnteredText, EnteredInput.regexes[i])
        /\ ~Accepted(validation) =>
              validation =
                EnteredInput.regexes[FirstFailing(EnteredText, EnteredInput.regexes)].message

\* C4 amended: within the bounds, the string is accepted iff every regex builds
\* and matches it; a rejection reports, for the first regex in the declared order
\* that does not build or that the string fails to match, the build failure
\* message if it does not build and its localized message otherwise.
C4_ReportsFirstFailure ==
    ValidatedWithinBounds =>
        /\ Accepted(validation) <=>
              \A i \in 1..Len(EnteredInput.regexes) :
                  MatchesRegex(EnteredText, EnteredInput.regexes[i])
        /\ ~Accepted(validation) =>
              LET first == EnteredInput.regexes[FirstFailing(EnteredText,
                                                             EnteredInput.regexes)]
              IN validation = IF RegexBuilds(first.regex) THEN first.message
                              ELSE BuildMessage

\* C4 witness: a string within the bounds matched the first regex, failed the
\* second and was rejected with the second's message.
C4_Witness ==
    /\ ValidatedWithinBounds
    /\ pc = "form_text"
    /\ Len(EnteredInput.regexes) = 2
    /\ MatchesRegex(EnteredText, EnteredInput.regexes[1])
    /\ EnteredInput.regexes[2].message # EnteredInput.regexes[1].message
    /\ validation = EnteredInput.regexes[2].message

Declined == Err("consent was not given")

\* C5: every time a Consent action is presented and declined, the handler yields
\* the consent-declined error, submit_consent is not called for it, and the
\* Driver ends with that error without handling any further action.
C5_DeclineAborts ==
    consent = Some(FALSE) =>
        /\ pc \in {"returned", "done"}
        /\ ret = Declined
        /\ pc = "done" => result = Declined
        /\ pending = NoCall
        /\ Last(handled) = "Consent"
        /\ Count(calls, "submit_consent") = Count(handled, "Consent") - 1
        /\ Len(calls) = Len(handled)

\* C5 witness: a second Consent action was declined after a first was accepted,
\* and the Driver has ended.
C5_Witness ==
    /\ consent = Some(FALSE)
    /\ pc = "done"
    /\ Count(handled, "Consent") = 2

\* C6: a Redirect or Wait action issues no remote call and yields no further
\* state, the Driver ends without error, and no action is handled after it.
C6_RedirectAndWaitTerminate ==
    \A i \in 1..Len(handled) :
        handled[i] \in {"Redirect", "Wait"} =>
            /\ i = Len(handled)
            /\ pc \in {"loop", "done"}
            /\ auth_flow = None
            /\ pending = NoCall
            /\ Len(calls) = Len(handled)
            /\ result = IF pc = "done" THEN Ok(None) ELSE Running
            /\ handled[i] = "Redirect" => IsSome(printed)

\* C6 witness: the Driver has ended after a Redirect that followed another action.
C6_Witness ==
    /\ pc = "done"
    /\ Len(handled) = 2
    /\ Last(handled) = "Redirect"
    /\ printed = Some("https://bank.example/auth")

\* the ids of the inputs of the Form action being handled
InputIds == {inputs[i].id : i \in 1..Len(inputs)}
FormInFlight == pc = "await" /\ pending.kind = "submit_form_inputs"

\* C7 as stated: a Form action whose inputs were all collected makes exactly one
\* submit_form_inputs call, whose mapping has one entry per input, keyed by the
\* input's id: as many entries as inputs.
C7_OneEntryPerInput ==
    FormInFlight =>
        /\ Count(calls, "submit_form_inputs") = Count(handled, "Form")
        /\ DOMAIN pending.inputs = InputIds
        /\ Cardinality(DOMAIN pending.inputs) = Len(inputs)

\* C7 amended: ... whose mapping has exactly one entry per distinct input id of
\* the action: as many entries as distinct ids, which is the number of inputs
\* when no two inputs share an id.
C7_OneEntryPerInputId ==
    /\ Count(calls, "submit_form_inputs") <= Count(handled, "Form")
    /\ FormInFlight =>
        /\ k = Len(inputs) + 1
        /\ Last(handled) = "Form"
        /\ Count(calls, "submit_form_inputs") = Count(handled, "Form")
        /\ DOMAIN pending.inputs = InputIds
        /\ Cardinality(DOMAIN pending.inputs) = Cardinality(InputIds)
        /\ (\A i, j \in 1..Len(inputs) : inputs[i].id = inputs[j].id => i = j)
              => Cardinality(DOMAIN pending.inputs) = Len(inputs)

\* C7 witness: a Form action with a Text and a Select input was collected and is
\* being submitted with two entries.
C7_Witness ==
    /\ FormInFlight
    /\ Len(inputs) = 2
    /\ inputs[1].type = "Text"
    /\ inputs[2].type = "Select"
    /\ DOMAIN pending.inputs = {inputs[1].id, inputs[2].id}
    /\ Cardinality(DOMAIN pending.inputs) = 2

\* the Select input collected last, with the position picked at its prompt
SelectCollected ==
    /\ pc \in {"form_text", "form_image", "form_select", "form_submit", "await"}
    /\ k > 1
    /\ inputs[k - 1].type = "Select"
    /\ IsSome(index)

\* C8: the value stored under a Select input's id is the id of the option at the
\* picked position of the declared option list, never its display label.
C8_SelectStoresOptionId ==
    SelectCollected =>
        LET input == inputs[k - 1]
            option == input.options[Unwrap(index) + 1]
        IN /\ input.id \in DOMAIN submissions
           /\ submissions[input.id] = option.id
           /\ submissions[input.id] # option.display_text
           /\ FormInFlight => pending.inputs[input.id] = option.id

\* C8 witness: the second option of a Select input was picked and the form is
\* being submitted.
C8_Witness ==
    /\ SelectCollected
    /\ FormInFlight
    /\ index = Some(1)
    /\ pending.inputs[inputs[k - 1].id] = <<"o", "2">>

\* C9: any handler error (input failure, declined consent, unsupported input,
\* failed remote start or submission) aborts the Driver at once: the Driver
\* returns that error, with no call in flight and none issued after it.
C9_HandlerErrorAborts ==
    /\ ret.tag = "Err" =>
         /\ pc \in {"returned", "done"}
         /\ pending = NoCall
         /\ pc = "done" => result = ret
    /\ result.tag = "Err" => pc = "done" /\ pending = NoCall
    /\ pc = "done" => result.tag \in {"Ok", "Err"}

MissingActionsError == Err("no auth flow actions")
FlowWithoutActions == pc = "loop" /\ IsSome(auth_flow) /\ ~IsSome(Unwrap(auth_flow).actions)

\* C10: a flow state that is present but carries no actions makes the Driver fail
\* with the missing-actions error: no handler is dispatched, no prompt is shown,
\* no remote call is made and the Driver does not return success.
C10_MissingActionsIsFatal ==
    /\ [][FlowWithoutActions =>
            /\ pc' = "done"
            /\ result' = MissingActionsError
            /\ handled' = handled
            /\ calls' = calls
            /\ pending' = NoCall
            /\ UNCHANGED << printed, consent, providerVars, index, formVars, promptVars >>
         ]_vars
    /\ [][pc = "done" => UNCHANGED allDriverVars]_vars

\* C10 witness: the Driver has ended with the missing-actions error on the
\* response to a submission.
C10_Witness ==
    /\ pc = "done"
    /\ result = MissingActionsError
    /\ Len(calls) = 2
    /\ handled = <<"Consent">>

\* C11: the Orchestrator starts polling for the payment status only after the
\* Driver has returned successfully; if the payment creation or the Driver
\* fails, that failure is what create returns and the polling never begins.
C11_PollsOnlyAfterDriverSuccess ==
    /\ polls \in {0, 1}
    /\ (polls = 1) <=> (orch = "poll" \/ (orch = "done" /\ result = Ok(None)))
    /\ polls = 1 => pc = "done" /\ result = Ok(None) /\ pending = NoCall
    /\ result.tag \in {"Err", "Panic"} => polls = 0
    /\ (orch = "done" /\ result.tag = "Err") => outcome = result
    /\ (orch = "done" /\ pc = "idle") =>
          /\ outcome = Err("payment creation failed")
          /\ polls = 0
          /\ calls = <<>>

\* C11 witness: the polling has begun after a Driver run that handled a Consent
\* and a Redirect action.
C11_Witness ==
    /\ orch = "poll"
    /\ polls = 1
    /\ handled = <<"Consent", "Redirect">>

\* the calls issued and not yet answered
InFlight == Len(calls) - responses

\* C12: the remote calls of a Driver run are strictly sequential: at most one
\* start/submit call is in flight, and a submission is in flight only once every
\* earlier call was answered and the input of its action was fully collected.
C12_CallsAreSequential ==
    /\ InFlight \in {0, 1}
    /\ (InFlight = 1) <=> (pc = "await")
    /\ (InFlight = 1) <=> (pending # NoCall)
    /\ pending # NoCall => pending.kind = Last(calls)
    /\ pending.kind = "start_authorization_flow" => calls = <<"start_authorization_flow">>
    /\ pending.kind = "submit_provider_selection" =>
          /\ Last(handled) = "ProviderSelection"
          /\ IsSome(index)
          /\ Unwrap(index) < Len(provider_names)
    /\ pending.kind = "submit_consent" =>
          /\ Last(handled) = "Consent"
          /\ consent = Some(TRUE)
    /\ pending.kind = "submit_form_inputs" =>
          /\ Last(handled) = "Form"
          /\ k = Len(inputs) + 1
          /\ DOMAIN pending.inputs = InputIds

\* C12 witness: the second submission of a run is in flight, a form of two inputs
\* after a consent.
C12_Witness ==
    /\ InFlight = 1
    /\ calls = <<"start_authorization_flow", "submit_consent", "submit_form_inputs">>
    /\ Len(inputs) = 2

\* the Form handler has met input k, whose image is a remote uri
MetUriImage ==
    /\ pc \in {"returned", "done"}
    /\ k \in 1..Len(inputs)
    /\ inputs[k].type = "TextWithImage"
    /\ inputs[k].image.type = "uri"

\* C13: a TextWithImage input whose image is a remote uri makes the flow fail
\* with an error returned to the caller: the input is not skipped, no
\* submit_form_inputs call is made, and the failure is an error result, not an
\* abort of the process.
C13_UriImageIsAnErrorResult ==
    MetUriImage =>
        /\ pending = NoCall
        /\ Count(calls, "submit_form_inputs") = Count(handled, "Form") - 1
        /\ inputs[k].id \notin DOMAIN submissions
        /\ IF pc = "returned" THEN ret.tag = "Err" ELSE result.tag = "Err"

\* C14: a sensitive text input is never validated: whatever string was entered
\* is returned, whatever min_length, max_length and the regexes, without another
\* prompt.
C14_SensitiveIsNotValidated ==
    (IsSome(entered) /\ EnteredInput.sensitive) =>
        /\ validation = NotValidated
        /\ pc # "form_text"
        /\ k = Unwrap(entered).at + 1
        /\ submissions[EnteredInput.id] = EnteredText

\* C14 witness: a sensitive input took an entry that is shorter than min_length,
\* longer than max_length and matches none of its regexes.
C14_Witness ==
    /\ IsSome(entered)
    /\ EnteredInput.sensitive
    /\ EnteredInput.max_length < Len(EnteredText)
    /\ Len(EnteredText) < EnteredInput.min_length
    /\ EnteredInput.regexes = <<ReDigits>>
    /\ ~MatchesRegex(EnteredText, ReDigits)
    /\ submissions[EnteredInput.id] = EnteredText

\* the flow the Driver holds carries an action
ActionPresent ==
    /\ pc = "loop"
    /\ IsSome(auth_flow)
    /\ IsSome(Unwrap(auth_flow).actions)
PresentTag == Unwrap(Unwrap(auth_flow).actions).next.tag

\* C15: the Driver returns success exactly when the flow state it holds has
\* become absent; while the state is present with an action it dispatches the
\* handler of that action's tag, and the state it holds next is exactly the
\* optional state that handler returned.
C15_DriverFollowsTheFlow ==
    /\ [](result = Ok(None) => pc = "done" /\ auth_flow = None)
    /\ [][(pc = "loop" /\ auth_flow = None) => (pc' = "done" /\ result' = Ok(None))]_vars
    /\ [][(result' = Ok(None) /\ result # Ok(None)) => (pc = "loop" /\ auth_flow = None)]_vars
    /\ [][ActionPresent =>
            /\ handled' = Append(handled, PresentTag)
            /\ calls' = calls
            /\ result' = result
            /\ CASE PresentTag = "ProviderSelection" ->
                      pc' = "select_provider"
                      /\ providers' = Unwrap(Unwrap(auth_flow).actions).next.providers
                 [] PresentTag = "Consent" -> pc' = "confirm_consent"
                 [] PresentTag = "Form" ->
                      pc' \in {"form_text", "form_image", "form_select", "form_submit"}
                      /\ inputs' = Unwrap(Unwrap(auth_flow).actions).next.inputs
                 [] PresentTag \in {"Redirect", "Wait"} ->
                      pc' = "loop" /\ auth_flow' = None
         ]_vars
    /\ [][(pc = "returned" /\ ret.tag = "Ok") => (pc' = "loop" /\ auth_flow' = ret.val)]_vars

\* C15 witness: the Driver holds the flow the first handler returned, which
\* carries another action.
C15_Witness ==
    /\ ActionPresent
    /\ Len(handled) = 1
    /\ ret = Ok(auth_flow)
    /\ PresentTag = "Form"

(***************************************************************************)
(* Progress.  handle_auth_flow is straight-line async code: every step of  *)
(* its own that can run does run.  Whether the server answers a call and   *)
(* whether the person answers a prompt is not the Driver's doing.          *)
(***************************************************************************)
DriverStep ==
    \/ Start
    \/ HandlerReturns
    \/ LoopExit
    \/ MissingActions
    \/ DispatchProviderSelection
    \/ DispatchConsent
    \/ DispatchRedirect
    \/ DispatchWait
    \/ DispatchForm
    \/ ShowImage
    \/ SubmitForm

SpecLive == Init /\ [][Next]_vars /\ WF_vars(DriverStep)

InteractiveTags == {"ProviderSelection", "Consent", "Form"}

\* no call stays unanswered for ever
ServerAnswers == []<>(pc # "await")

\* no prompt stays open for ever: each is answered with an entry it accepts,
\* or fails
PromptsAnswered ==
    /\ []<>(pc # "select_provider")
    /\ []<>(pc # "confirm_consent")
    /\ []<>(pc # "form_select")
    /\ \A i \in 1..MaxInputs : []<>(~(pc = "form_text" /\ k = i))

\* C16: if the server answers every call and stops returning interactive
\* actions after finitely many submissions, and every prompt is eventually
\* answered validly, then the Driver, once started, terminates; and however
\* many actions it has handled, the Driver goes on to handle a
\* ProviderSelection, Consent or Form action the server returned.
C16_TerminatesWhenTheServerDoes ==
    /\ (ServerAnswers /\ PromptsAnswered) => ((pc = "start") ~> (pc = "done"))
    /\ [][(ActionPresent /\ PresentTag \in InteractiveTags) =>
            /\ pc' \in {"select_provider", "confirm_consent", "form_text", "form_image",
                        "form_select", "form_submit"}
            /\ result' = Running
            /\ handled' = Append(handled, PresentTag)]_vars

\* C16 witness: the Driver has terminated after handling an interactive action
\* in every round the server allowed and the terminal action that followed.
C16_Witness ==
    /\ pc = "done"
    /\ result = Ok(None)
    /\ Len(handled) = MaxRounds + 1
    /\ \A i \in 1..MaxRounds : handled[i] \in InteractiveTags

FormPositions == {"form_text", "form_image", "form_select", "form_submit"}
CollectedIds == {inputs[i].id : i \in 1..(k - 1)}

\* C17: the Form handler collects the inputs in the declared order and submits
\* one batch once all are collected; when collecting input k fails no later
\* input is prompted and nothing is submitted; a batch the server rejects ends
\* the Driver with that error, without another prompt or submission.
C17_CollectsInOrderThenSubmitsOnce ==
    /\ [](pc \in FormPositions =>
            /\ k \in 1..(Len(inputs) + 1)
            /\ DOMAIN submissions = CollectedIds
            /\ (pc = "form_submit" <=> k = Len(inputs) + 1)
            /\ (pc = "form_image" => inputs[k].type = "TextWithImage")
            /\ (pc = "form_text" => inputs[k].type \in {"Text", "TextWithImage"})
            /\ (pc = "form_select" => inputs[k].type = "Select"))
    /\ [](Count(calls, "submit_form_inputs") <= Count(handled, "Form"))
    /\ [][(pc \in FormPositions /\ pc' \in FormPositions) =>
            (inputs' = inputs /\ k' \in {k, k + 1} /\ calls' = calls)]_vars
    /\ [][calls' = Append(calls, "submit_form_inputs") =>
            /\ pc = "form_submit"
            /\ pending' = Call("submit_form_inputs", "", submissions)
            /\ DOMAIN submissions = InputIds]_vars
    /\ [][(pc \in FormPositions /\ pc' \notin FormPositions /\ k <= Len(inputs)) =>
            /\ calls' = calls
            /\ \/ pc' = "returned" /\ ret'.tag = "Err"
               \/ pc' = "done" /\ result'.tag = "Panic"]_vars
    /\ [][(pc = "returned" /\ ret.tag = "Err") =>
            (pc' = "done" /\ result' = ret /\ calls' = calls)]_vars
    /\ [][(FormInFlight /\ ret'.tag = "Err") => (pc' = "returned" /\ calls' = calls)]_vars
    /\ [][pc = "done" => UNCHANGED << pc, calls, k, entered, index, handled >>]_vars

\* C17 witness: the first of two inputs was collected, the prompt of the second
\* failed, and the handler has ended without a submission.
C17_Witness ==
    /\ pc = "returned"
    /\ ret = InputError
    /\ Len(inputs) = 2
    /\ k = 2
    /\ DOMAIN submissions = {inputs[1].id}
    /\ Last(handled) = "Form"
    /\ Count(calls, "submit_form_inputs") = 0

IsInteractive(tag) == tag \in InteractiveTags
KindOf(tag) ==
    CASE tag = "ProviderSelection" -> "submit_provider_selection"
      [] tag = "Consent" -> "submit_consent"
      [] tag = "Form" -> "submit_form_inputs"
\* the calls a run makes when every interactive action it was handed is collected
ExpectedCalls ==
    LET collected == SelectSeq(handled, IsInteractive)
    IN <<"start_authorization_flow">> \o [i \in 1..Len(collected) |-> KindOf(collected[i])]
Front(seq) == SubSeq(seq, 1, Len(seq) - 1)
PromptPositions ==
    {"select_provider", "confirm_consent", "form_text", "form_image", "form_select",
     "form_submit"}

\* C18: the calls of a run are start_authorization_flow first, then for each
\* ProviderSelection, Consent or Form action that was collected the submission
\* of its kind, in the order the actions came; the action being collected or
\* the one whose collection failed has no call, and neither has Redirect or Wait.
C18_CallsFollowTheActions ==
    /\ (calls = <<>> => handled = <<>>)
    /\ (calls # <<>> =>
          \/ calls = ExpectedCalls
          \/ /\ calls = Front(ExpectedCalls)
             /\ IsInteractive(Last(handled))
             /\ pc \in PromptPositions \cup {"returned", "done"})
    /\ (pc \in PromptPositions => calls = Front(ExpectedCalls))
    /\ ((pc = "await" /\ pending.kind # "start_authorization_flow") =>
          (calls = ExpectedCalls /\ Last(calls) = pending.kind))
    /\ (pc = "returned" =>
          IF ret.tag = "Err" /\ ret.err # "remote call failed"
          THEN calls = Front(ExpectedCalls)
          ELSE calls = ExpectedCalls)
    /\ (result = Ok(None) => calls = ExpectedCalls)

\* C18 witness: a run that succeeded after two different submissions and a
\* closing Redirect or Wait.
C18_Witness ==
    /\ pc = "done"
    /\ result = Ok(None)
    /\ Len(handled) = 3
    /\ Last(handled) \in {"Redirect", "Wait"}
    /\ Len(calls) = 3
    /\ calls[2] # calls[3]

\* C19: every position the provider prompt can return resolves to an entry of
\* the provider list it is looked up in: the Driver never unwinds with
\* "index out of bounds", whatever the list and whatever is picked.
C19_PickedIndexResolves ==
    /\ result # Panic("index out of bounds")
    /\ (pc = "select_provider" =>
          /\ Len(provider_names) <= Len(providers)
          /\ \A i \in 0..(Len(provider_names) - 1) : IsSome(selected_provider(providers, i)))
    /\ ((pc = "await" /\ pending.kind = "submit_provider_selection") =>
          /\ IsSome(index)
          /\ Unwrap(index) + 1 \in 1..Len(providers)
          /\ pending.provider_id = providers[Unwrap(index) + 1].id)

\* C19 witness: the last position of a list of several providers, all of
\* them offered, was picked and resolved.
C19_Witness ==
    /\ pc = "await"
    /\ pending.kind = "submit_provider_selection"
    /\ Len(providers) >= 2
    /\ Len(provider_names) = Len(providers)
    /\ index = Some(Len(providers) - 1)

====
